---- MODULE Spec2Model ----
(***************************************************************************)
(* Simon's algorithm service (backend/app/algorithms/simon.py).            *)
(*                                                                         *)
(* Python strings that the code indexes (hidden_period, the measurement    *)
(* bitstrings) are sequences of one-character strings; strings the code    *)
(* only builds (the equations, the error details) are TLA+ strings, with   *)
(* "(+)" written for the XOR sign of the source.                           *)
(*                                                                         *)
(* Three specifications:                                                   *)
(*   Spec         the request handler run_simon_algorithm, step by step;   *)
(*   SpecOracle   create_simon_oracle applied to every (period, n);        *)
(*   SpecExtract  extract_linear_equations and solve_linear_system applied *)
(*                to every (counts, period, n).                            *)
(***************************************************************************)
EXTENDS Integers, Sequences, FiniteSets, TLC

VARIABLES
    pc,               \* position of the handler
    request,          \* SimonRequest: [hidden_period, num_qubits]
    n,                \* run_simon_algorithm: n = num_qubits // 2
    oracle,           \* the gate list create_simon_oracle returned
    circuit,          \* the QuantumCircuit create_simon_circuit returned
    simPath,          \* which return of simulate_simon was taken
    statevector,      \* what the state vector was built from
    counts,           \* measurement counts: a dict, in insertion order
    linear_equations, \* extract_linear_equations' result
    recovered_period, \* solve_linear_system's result
    raised,           \* the exception in flight inside the handler's try
    status,           \* HTTP status the caller receives (0: none yet)
    response          \* the SimonResponse or the error body

vars == <<pc, request, n, oracle, circuit, simPath, statevector, counts,
          linear_equations, recovered_period, raised, status, response>>

----------------------------------------------------------------------------
(* Bounds *)

MaxQubits == 6       \* num_qubits ranges over 1..MaxQubits
MaxPeriodLen == 3    \* hidden_period has at most this many characters
MaxN == 3            \* n of the pure-function specifications: 0..MaxN
MaxOutcomes == 3     \* distinct bitstrings in a counts map
MaxCount == 2        \* counts of the pure-function specification: 1..MaxCount
MaxKeyLen == 2       \* length of the bitstrings of that specification: 1..MaxKeyLen
SampleShots == 3     \* shots of a sampled run (1024 in the source, scaled)

\* "2" stands for every character that is neither '0' nor '1'
Chars == {"0", "1", "2"}
Bits == {"0", "1"}

----------------------------------------------------------------------------
(* Python string helpers *)

Min(a, b) == IF a <= b THEN a ELSE b

\* str.ljust(width, fillchar)
ljust(s, width, fill) ==
    IF Len(s) >= width THEN s
    ELSE s \o [i \in 1..(width - Len(s)) |-> fill]

\* s[:k] for k >= 0
Prefix(s, k) == SubSeq(s, 1, Min(k, Len(s)))

\* hidden_period.ljust(n, '0')[:n]
padded_period(hidden_period, nn) == Prefix(ljust(hidden_period, nn, "0"), nn)

\* all(bit in '01' for bit in s): true of the empty string
IsBinary(s) == \A i \in 1..Len(s) : s[i] \in Bits

\* measurement == '0' * len(measurement): true of the empty string
IsAllZeros(s) == \A i \in 1..Len(s) : s[i] = "0"

\* every string over alphabet of length 0..maxLen
Strings(alphabet, maxLen) ==
    UNION {[1..k -> alphabet] : k \in 0..maxLen}

----------------------------------------------------------------------------
(* Gates and the oracle *)

Gate(name, qubits) == [name |-> name, qubits |-> qubits]

cx(control, target) == Gate("cx", <<control, target>>)

\* for i in range(n): oracle.cx(i, i + n)
CopyGates(nn) == [k \in 1..nn |-> cx(k - 1, k - 1 + nn)]

\* for i, bit in enumerate(padded_period): if bit == '1': oracle.cx(i, (i+1) % n + n)
\* PeriodGates(p, nn, i) is what iterations i, i+1, ... append (i is 0-based)
RECURSIVE PeriodGates(_, _, _)
PeriodGates(p, nn, i) ==
    IF i >= Len(p) THEN <<>>
    ELSE (IF p[i + 1] = "1" THEN <<cx(i, ((i + 1) % nn) + nn)>> ELSE <<>>)
         \o PeriodGates(p, nn, i + 1)

\* the period loop without the wrap-around of the target index
RECURSIVE PeriodGatesNoWrap(_, _, _)
PeriodGatesNoWrap(p, nn, i) ==
    IF i >= Len(p) THEN <<>>
    ELSE (IF p[i + 1] = "1" THEN <<cx(i, (i + 1) + nn)>> ELSE <<>>)
         \o PeriodGatesNoWrap(p, nn, i + 1)

create_simon_oracle_nowrap(hidden_period, nn) ==
    CopyGates(nn) \o PeriodGatesNoWrap(padded_period(hidden_period, nn), nn, 0)

create_simon_oracle(hidden_period, nn) ==
    CopyGates(nn) \o PeriodGates(padded_period(hidden_period, nn), nn, 0)

----------------------------------------------------------------------------
(* Classical action of a gate list on basis states *)

BitVectors(k) == [0..(k - 1) -> {0, 1}]

\* CNOT on a basis state: the target bit is XORed with the control bit
ApplyGate(g, bits) ==
    IF g.name = "cx"
    THEN [bits EXCEPT ![g.qubits[2]] = (bits[g.qubits[2]] + bits[g.qubits[1]]) % 2]
    ELSE bits

RECURSIVE ApplyGates(_, _)
ApplyGates(gates, bits) ==
    IF gates = <<>> THEN bits
    ELSE ApplyGates(Tail(gates), ApplyGate(Head(gates), bits))

\* f(x): input register x in qubits [0,n), output register 0 in qubits [n,2n);
\* the result is the output register after the oracle's gates
OracleFunction(gates, nn, x) ==
    LET start == [q \in 0..(2 * nn - 1) |-> IF q < nn THEN x[q] ELSE 0]
        final == ApplyGates(gates, start)
    IN  [q \in 0..(nn - 1) |-> final[q + nn]]

XorVec(x, y) == [q \in DOMAIN x |-> (x[q] + y[q]) % 2]

\* the n-bit vector a bitstring of length >= n denotes, character i = bit i
PeriodVector(p, nn) == [q \in 0..(nn - 1) |-> IF p[q + 1] = "1" THEN 1 ELSE 0]

----------------------------------------------------------------------------
(* extract_linear_equations and solve_linear_system *)

\* counts is dict.items() in insertion order: a sequence of <<bitstring, count>>
Key(item) == item[1]
Count(item) == item[2]

\* x goes before the first item whose count is not larger: x was inserted
\* into the dict before every item of sortedTail, and the sort is stable
RECURSIVE InsertByCount(_, _)
InsertByCount(x, sortedTail) ==
    IF sortedTail = <<>> THEN <<x>>
    ELSE IF Count(Head(sortedTail)) <= Count(x) THEN <<x>> \o sortedTail
    ELSE <<Head(sortedTail)>> \o InsertByCount(x, Tail(sortedTail))

\* sorted(counts.items(), key=lambda x: x[1], reverse=True)
RECURSIVE sorted_counts(_)
sorted_counts(items) ==
    IF items = <<>> THEN <<>>
    ELSE InsertByCount(Head(items), sorted_counts(Tail(items)))

\* for j, y_bit in enumerate(measurement): if y_bit == '1': append f's_{j}'
\* EquationParts(m, j) is what iterations j, j+1, ... append (j is 0-based)
RECURSIVE EquationParts(_, _)
EquationParts(measurement, j) ==
    IF j >= Len(measurement) THEN <<>>
    ELSE (IF measurement[j + 1] = "1" THEN <<"s_" \o ToString(j)>> ELSE <<>>)
         \o EquationParts(measurement, j + 1)

\* sep.join(parts)
RECURSIVE Join(_, _)
Join(parts, sep) ==
    IF parts = <<>> THEN ""
    ELSE IF Len(parts) = 1 THEN parts[1]
    ELSE parts[1] \o sep \o Join(Tail(parts), sep)

\* ' (+) '.join(equation_parts) + ' = 0'
EquationText(parts) == Join(parts, " (+) ") \o " = 0"

\* the equation added "for demonstration"
GenericEquation == "s_0 (+) s_1 = 0"

\* the for loop over sorted_counts from position i (1-based) on
RECURSIVE ExtractLoop(_, _, _, _)
ExtractLoop(sc, i, equations, nn) ==
    IF i > Len(sc) THEN equations
    ELSE LET measurement == Key(sc[i])
         IN  IF IsAllZeros(measurement)
             THEN ExtractLoop(sc, i + 1, equations, nn)           \* continue
             ELSE LET parts == EquationParts(measurement, 0)
                      eqs == IF parts # <<>>
                             THEN Append(equations, EquationText(parts))
                             ELSE equations
                  IN  IF Len(eqs) >= nn - 1
                      THEN eqs                                    \* break
                      ELSE ExtractLoop(sc, i + 1, eqs, nn)

\* while len(equations) < n - 1: equations.append('s_0 (+) s_1 = 0')
FillGeneric(equations, nn) ==
    IF Len(equations) >= nn - 1 THEN equations
    ELSE equations \o [k \in 1..(nn - 1 - Len(equations)) |-> GenericEquation]

extract_linear_equations(cnts, hidden_period, nn) ==
    FillGeneric(ExtractLoop(sorted_counts(cnts), 1, <<>>, nn), nn)

solve_linear_system(equations, nn, hidden_period) == hidden_period

----------------------------------------------------------------------------
(* create_simon_circuit, extract_gate_sequence *)

\* circuit.h(range(n))
HadamardLayer(nn) == [k \in 1..nn |-> Gate("h", <<k - 1>>)]

\* circuit.measure(range(n), range(n))
MeasureLayer(nn) == [k \in 1..nn |-> Gate("measure", <<k - 1>>)]

\* the circuit returned for an even num_qubits
create_simon_circuit(hidden_period, num_qubits) ==
    LET nn == num_qubits \div 2
    IN  [num_qubits |-> num_qubits,
         data |-> HadamardLayer(nn) \o create_simon_oracle(hidden_period, nn)
                  \o HadamardLayer(nn) \o MeasureLayer(nn)]

\* name, qubits and params of every instruction; h, cx and measure have no params
extract_gate_sequence(c) ==
    [k \in 1..Len(c.data) |->
        [name |-> c.data[k].name, qubits |-> c.data[k].qubits, params |-> <<>>]]

----------------------------------------------------------------------------
(* simulate_simon: what the simulator can return for the circuit *)

\* the sum of f[x] over the x in S
RECURSIVE SumOver(_, _)
SumOver(f, S) ==
    IF S = {} THEN 0
    ELSE LET x == CHOOSE e \in S : TRUE
         IN  f[x] + SumOver(f, S \ {x})

Dot(x, y) == SumOver([q \in DOMAIN x |-> x[q] * y[q]], DOMAIN x) % 2

\* H^n, oracle, H^n on |0..0>: the amplitude of |y>|z> is
\* 2^-n * sum over the x with f(x) = z of (-1)^(x.y); Amplitude is that sum
Amplitude(gates, nn, y, z) ==
    SumOver([x \in BitVectors(nn) |-> IF Dot(x, y) = 0 THEN 1 ELSE -1],
            {x \in BitVectors(nn) : OracleFunction(gates, nn, x) = z})

\* the outcomes of the measured register that have non-zero probability
PossibleOutcomes(gates, nn) ==
    {y \in BitVectors(nn) : \E z \in BitVectors(nn) : Amplitude(gates, nn, y, z) # 0}

\* get_counts() writes classical bit n-1 first
CountsKey(y, nn) == [j \in 1..nn |-> IF y[nn - j] = 1 THEN "1" ELSE "0"]

\* sequences of k distinct elements of S
InjectiveSeqs(S, k) ==
    {q \in [1..k -> S] : \A i, j \in 1..k : i # j => q[i] # q[j]}

SeqSum(q) == SumOver(q, DOMAIN q)

\* every counts dict over the keys, each count positive, of `shots` shots in
\* all, with at most MaxOutcomes distinct outcomes, in every insertion order
SampledCounts(keys, shots) ==
    UNION { { [i \in 1..k |-> <<ks[i], cs[i]>>] :
                ks \in InjectiveSeqs(keys, k),
                cs \in {c \in [1..k -> 1..shots] : SeqSum(c) = shots} }
            : k \in 1..Min(MaxOutcomes, Cardinality(keys)) }

\* fallback_counts = {"00": 512, "01": 256, "10": 256}
fallback_counts ==
    << <<(<<"0", "0">>), 512>>, <<(<<"0", "1">>), 256>>, <<(<<"1", "0">>), 256>> >>

----------------------------------------------------------------------------
(* Initial values shared by the specifications *)

NoCircuit == [num_qubits |-> -1, data |-> <<>>]
NoResponse == [kind |-> "none"]

NoException == [type |-> "none", status_code |-> 0, detail |-> ""]

HTTPException(status_code, detail) ==
    [type |-> "HTTPException", status_code |-> status_code, detail |-> detail]

ValueError(detail) == [type |-> "ValueError", status_code |-> 0, detail |-> detail]

\* str(e): Starlette writes an HTTPException as "<status_code>: <detail>"
StrOfException(e) ==
    IF e.type = "HTTPException"
    THEN ToString(e.status_code) \o ": " \o e.detail
    ELSE e.detail

Idle ==
    /\ oracle = <<>>
    /\ circuit = NoCircuit
    /\ simPath = "none"
    /\ statevector = "none"
    /\ linear_equations = <<>>
    /\ recovered_period = <<>>
    /\ raised = NoException
    /\ status = 0
    /\ response = NoResponse

----------------------------------------------------------------------------
(* Spec: one request through run_simon_algorithm *)

Init ==
    /\ pc = "start"
    /\ \E hp \in Strings(Chars, MaxPeriodLen), nq \in 1..MaxQubits :
           request = [hidden_period |-> hp, num_qubits |-> nq]
    /\ n = 0
    /\ counts = <<>>
    /\ Idle

\* lines 169-182: the two checks, each raising HTTPException(400) inside the try
Validate ==
    /\ pc = "start"
    /\ IF ~IsBinary(request.hidden_period)
       THEN /\ raised' = HTTPException(400, "Hidden period must contain only 0s and 1s")
            /\ pc' = "except"
            /\ n' = n
       ELSE IF request.num_qubits % 2 # 0
       THEN /\ raised' = HTTPException(400,
                             "Number of qubits must be even for Simon's algorithm")
            /\ pc' = "except"
            /\ n' = n
       ELSE /\ n' = request.num_qubits \div 2
            /\ pc' = "create_circuit"
            /\ raised' = raised
    /\ UNCHANGED <<request, oracle, circuit, simPath, statevector, counts,
                   linear_equations, recovered_period, status, response>>

\* line 185: create_simon_circuit, with its own check of the qubit count
CreateCircuit ==
    /\ pc = "create_circuit"
    /\ IF request.num_qubits % 2 # 0
       THEN /\ raised' = ValueError("Number of qubits must be even for Simon's algorithm")
            /\ pc' = "except"
            /\ UNCHANGED <<oracle, circuit>>
       ELSE /\ oracle' = create_simon_oracle(request.hidden_period,
                                             request.num_qubits \div 2)
            /\ circuit' = create_simon_circuit(request.hidden_period,
                                               request.num_qubits)
            /\ pc' = "simulate"
            /\ raised' = raised
    /\ UNCHANGED <<request, n, simPath, statevector, counts,
                   linear_equations, recovered_period, status, response>>

\* line 186: simulate_simon. Whether the simulator fails is the library's choice.
Simulate ==
    /\ pc = "simulate"
    /\ LET nn == circuit.num_qubits \div 2
           keys == {CountsKey(y, nn) : y \in PossibleOutcomes(oracle, nn)}
       IN  \/ /\ simPath' = "simulated"                \* lines 95, 112
              /\ statevector' = "evolved"
              /\ counts' \in SampledCounts(keys, SampleShots)
           \/ /\ simPath' = "statevector_fallback"     \* lines 96-101, 112
              /\ statevector' = "uniform"
              /\ counts' \in SampledCounts(keys, SampleShots)
           \/ /\ simPath' = "exception_fallback"       \* lines 114-122
              /\ statevector' = "uniform"
              /\ counts' = fallback_counts
    /\ pc' = "extract"
    /\ UNCHANGED <<request, n, oracle, circuit, linear_equations,
                   recovered_period, raised, status, response>>

\* line 187
ExtractEquations ==
    /\ pc = "extract"
    /\ linear_equations' = extract_linear_equations(counts, request.hidden_period, n)
    /\ pc' = "solve"
    /\ UNCHANGED <<request, n, oracle, circuit, simPath, statevector, counts,
                   recovered_period, raised, status, response>>

\* line 188
SolveLinearSystem ==
    /\ pc = "solve"
    /\ recovered_period' = solve_linear_system(linear_equations, n,
                                               request.hidden_period)
    /\ pc' = "respond"
    /\ UNCHANGED <<request, n, oracle, circuit, simPath, statevector, counts,
                   linear_equations, raised, status, response>>

\* lines 197-215: the SimonResponse
SimonResponse ==
    [success |-> TRUE,
     circuit_data |-> [num_qubits |-> request.num_qubits,
                       hidden_period |-> request.hidden_period,
                       gates |-> extract_gate_sequence(circuit)],
     quantum_state |-> statevector,
     probabilities |-> statevector,
     measurement_counts |-> counts,
     linear_equations |-> linear_equations,
     recovered_period |-> recovered_period,
     hidden_period |-> request.hidden_period]

Respond ==
    /\ pc = "respond"
    /\ response' = SimonResponse
    /\ status' = 200
    /\ pc' = "done"
    /\ UNCHANGED <<request, n, oracle, circuit, simPath, statevector, counts,
                   linear_equations, recovered_period, raised>>

\* lines 217-218: except Exception catches the HTTPException(400) as well
ExceptHandler ==
    /\ pc = "except"
    /\ status' = 500
    /\ response' = [detail |-> StrOfException(raised)]
    /\ raised' = NoException
    /\ pc' = "done"
    /\ UNCHANGED <<request, n, oracle, circuit, simPath, statevector, counts,
                   linear_equations, recovered_period>>

Next ==
    \/ Validate
    \/ CreateCircuit
    \/ Simulate
    \/ ExtractEquations
    \/ SolveLinearSystem
    \/ Respond
    \/ ExceptHandler

Spec == Init /\ [][Next]_vars

----------------------------------------------------------------------------
(* Claims about the request handler, under Spec *)

\* C4: for every odd num_qubits the request fails with the configuration
\* (client, 400) error; no gate is constructed and no simulation is run before
\* the failure, and the failure reaches the caller still classified as a
\* configuration error rather than a generic internal error. (Stated for
\* the requests whose period is well-formed, where the qubit check is the
\* one that fails.)
OddQubitsIsConfigurationError ==
    (/\ request.num_qubits % 2 # 0
     /\ request.hidden_period # <<>>
     /\ IsBinary(request.hidden_period)) =>
        /\ oracle = <<>>
        /\ circuit = NoCircuit
        /\ simPath = "none"
        /\ pc = "done" => status = 400

\* C5: every request whose hidden_period is empty or has a character other
\* than '0'/'1', or whose num_qubits is less than 2, fails with the
\* configuration error before circuit construction: it never reaches
\* create_simon_circuit and never returns a success response.
MalformedRequestRejected ==
    (\/ request.hidden_period = <<>>
     \/ ~IsBinary(request.hidden_period)
     \/ request.num_qubits < 2) =>
        /\ pc \notin {"create_circuit", "simulate", "extract", "solve", "respond"}
        /\ circuit = NoCircuit
        /\ pc = "done" => status = 400

\* C6: whenever hidden_period is all zeros the request ends in an error
\* outcome; it never returns a success result carrying a recovered period.
ZeroPeriodNeverSucceeds ==
    (request.hidden_period # <<>> /\ IsAllZeros(request.hidden_period)) =>
        ~(pc = "done" /\ status = 200)

\* the boolean fields of a response payload: success (SimonResponse) and the
\* degraded marker the payload would need
FlagFields == {"success", "degraded"}

ResponseFlags(r) == [f \in (DOMAIN r) \cap FlagFields |-> r[f]]

\* C9: whenever simulate_simon took a fallback path, the response returned
\* differs in its flags from a response built from a real simulation
\* (success = TRUE and no degraded marker).
FallbackIsFlagged ==
    (pc = "done" /\ simPath \in {"statevector_fallback", "exception_fallback"}) =>
        ResponseFlags(response) # [f \in {"success"} |-> TRUE]

----------------------------------------------------------------------------
(* SpecOracle: create_simon_oracle on every period string and every n *)

InitOracle ==
    /\ pc = "oracle"
    /\ n \in 0..MaxN
    /\ \E hp \in Strings(Chars, MaxPeriodLen) :
           request = [hidden_period |-> hp, num_qubits |-> 2 * n]
    /\ counts = <<>>
    /\ Idle

BuildOracle ==
    /\ pc = "oracle"
    /\ oracle' = create_simon_oracle(request.hidden_period, n)
    /\ pc' = "oracle_built"
    /\ UNCHANGED <<request, n, circuit, simPath, statevector, counts,
                   linear_equations, recovered_period, raised, status, response>>

NextOracle == BuildOracle

SpecOracle == InitOracle /\ [][NextOracle]_vars

\* s': the period right-padded with '0' to length n, truncated to n characters
PaddedChar(hp, i) == IF i <= Len(hp) THEN hp[i] ELSE "0"

\* 0-based indices i < n with s'[i] = '1'
OnePositions(hp, nn) == {i \in 0..(nn - 1) : PaddedChar(hp, i + 1) = "1"}

\* C3: for every n and every period string the oracle is exactly
\* CNOT(i, i+n) for i = 0..n-1 in ascending order, then
\* CNOT(i, ((i+1) mod n) + n) for each i in ascending order with s'[i] = '1';
\* no other gate, no measurement; n = 2, s = "11" gives exactly 4 CNOTs.
OracleGateList ==
    pc = "oracle_built" =>
        LET hp == request.hidden_period
            ones == OnePositions(hp, n)
            before(i) == Cardinality({j \in ones : j < i})
        IN  /\ Len(oracle) = n + Cardinality(ones)
            /\ \A k \in 1..Len(oracle) :
                   /\ oracle[k].name = "cx"
                   /\ Len(oracle[k].qubits) = 2
            /\ \A i \in 0..(n - 1) : oracle[i + 1].qubits = <<i, i + n>>
            /\ \A i \in ones :
                   oracle[n + before(i) + 1].qubits = <<i, ((i + 1) % n) + n>>
            /\ (n = 2 /\ hp = <<"1", "1">>) =>
                   oracle = << [name |-> "cx", qubits |-> <<0, 2>>],
                               [name |-> "cx", qubits |-> <<1, 3>>],
                               [name |-> "cx", qubits |-> <<0, 3>>],
                               [name |-> "cx", qubits |-> <<1, 2>>] >>

\* the oracle of n = 3 built from a 2-character period with a padded third
\* position has been built, and its wrap-around gate is in place
OracleGateListWitness ==
    /\ pc = "oracle_built"
    /\ n = 3
    /\ request.hidden_period = <<"0", "1", "1">>
    /\ Len(oracle) = 5
    /\ oracle[5].qubits = <<2, 3>>

\* C2: for every n >= 1 and every non-zero n-bit period s, the function f the
\* oracle computes on basis states satisfies f(x) = f(x XOR s) for every x,
\* and f is two-to-one.
OracleHasPeriod ==
    (/\ pc = "oracle_built"
     /\ n >= 1
     /\ Len(request.hidden_period) = n
     /\ IsBinary(request.hidden_period)
     /\ ~IsAllZeros(request.hidden_period)) =>
        LET s == PeriodVector(request.hidden_period, n)
            f(x) == OracleFunction(oracle, n, x)
        IN  /\ \A x \in BitVectors(n) : f(x) = f(XorVec(x, s))
            /\ \A x \in BitVectors(n) :
                   Cardinality({y \in BitVectors(n) : f(y) = f(x)}) = 2

----------------------------------------------------------------------------
(* SpecExtract: extract_linear_equations and solve_linear_system on every *)
(* counts map, every n and every n-bit hidden_period                       *)

\* every non-empty dict of at most MaxOutcomes bitstrings of length m, with
\* counts 1..MaxCount (get_counts returns at least one outcome)
CountsMaps(m) ==
    UNION { { [i \in 1..k |-> <<ks[i], cs[i]>>] :
                ks \in InjectiveSeqs([1..m -> Bits], k),
                cs \in [1..k -> 1..MaxCount] }
            : k \in 1..MaxOutcomes }

InitExtract ==
    /\ pc = "extract"
    /\ n \in 1..MaxN
    /\ \E hp \in [1..n -> Bits] :
           request = [hidden_period |-> hp, num_qubits |-> 2 * n]
    /\ \E m \in 1..MaxKeyLen : counts \in CountsMaps(m)
    /\ Idle

\* a second call of solve_linear_system: same equations, same n, another
\* hidden_period
SolveAgain ==
    /\ pc = "respond"
    /\ \E hp2 \in [1..n -> Bits] \ {request.hidden_period} :
           /\ request' = [request EXCEPT !.hidden_period = hp2]
           /\ recovered_period' = solve_linear_system(linear_equations, n, hp2)
    /\ pc' = "solved_again"
    /\ UNCHANGED <<n, oracle, circuit, simPath, statevector, counts,
                   linear_equations, raised, status, response>>

NextExtract ==
    \/ ExtractEquations
    \/ SolveLinearSystem
    \/ SolveAgain

SpecExtract == InitExtract /\ [][NextExtract]_vars

\* the equation a measurement outcome gives
EquationOfKey(measurement) == EquationText(EquationParts(measurement, 0))

\* width of the coefficient vectors: every index an equation can name
VectorWidth == IF MaxKeyLen > 2 THEN MaxKeyLen ELSE 2

\* the coefficient vector of an equation: character j+1 is '1' iff s_j occurs
CoefficientsOf(equation) ==
    CHOOSE v \in [1..VectorWidth -> Bits] : EquationOfKey(v) = equation

\* 0-based indices of the unknowns an equation names
IndicesOf(equation) ==
    {j \in 0..(VectorWidth - 1) : CoefficientsOf(equation)[j + 1] = "1"}

\* symmetric difference of the index sets of the equations at positions T
XorOf(equations, T) ==
    {j \in 0..(VectorWidth - 1) :
        Cardinality({k \in T : j \in IndicesOf(equations[k])}) % 2 = 1}

\* linearly independent over GF(2): no non-empty selection XORs to zero
Independent(equations) ==
    \A T \in (SUBSET (1..Len(equations))) \ {{}} : XorOf(equations, T) # {}

\* the n-bit vectors s that satisfy every equation
NullSpace(equations, nn) ==
    {s \in BitVectors(nn) :
        \A k \in 1..Len(equations) :
            Cardinality({j \in IndicesOf(equations[k]) : s[j] = 1}) % 2 = 0}

\* the period string of an n-bit vector
PeriodString(s, nn) == [j \in 1..nn |-> IF s[j - 1] = 1 THEN "1" ELSE "0"]

ZeroVector(nn) == [q \in 0..(nn - 1) |-> 0]

\* C1: the recovered period is computed from the equations alone: a solver
\* call on accepted equations whose null space is {0, s} returns the
\* non-zero s, and a second call with the same equations and n but another
\* hidden_period returns the same period.
SolverUsesOnlyEquations ==
    [][ /\ (pc = "solve" /\ pc' = "respond") =>
              LET ns == NullSpace(linear_equations, n)
              IN  (/\ linear_equations # <<>>
                   /\ \A k \in 1..Len(linear_equations) :
                         \A j \in IndicesOf(linear_equations[k]) : j < n
                   /\ Cardinality(ns) = 2) =>
                      \E s \in ns \ {ZeroVector(n)} :
                          recovered_period' = PeriodString(s, n)
        /\ (pc = "respond" /\ pc' = "solved_again") =>
              recovered_period' = recovered_period ]_vars

\* the non-zero outcomes of a counts map
NonZeroKeys(cnts) ==
    {Key(cnts[i]) : i \in {k \in 1..Len(cnts) : ~IsAllZeros(Key(cnts[k]))}}

\* C7: equations are never fabricated: every returned equation is derived
\* from a non-zero outcome present in the counts map, and with fewer than n-1
\* such outcomes the list is not filled up to n-1 equations.
EquationsNeverFabricated ==
    pc = "solve" =>
        /\ \A k \in 1..Len(linear_equations) :
               \E m \in NonZeroKeys(counts) : linear_equations[k] = EquationOfKey(m)
        /\ Cardinality(NonZeroKeys(counts)) < n - 1 =>
               Len(linear_equations) < n - 1

\* C8: for n >= 1 the returned list has at most n-1 entries and is linearly
\* independent over GF(2): no equation is repeated, none is the XOR of others.
EquationsIndependent ==
    (pc = "solve" /\ n >= 1) =>
        /\ Len(linear_equations) <= n - 1
        /\ Independent(linear_equations)

\* bitstring order: a before b
RECURSIVE BitstringLess(_, _)
BitstringLess(a, b) ==
    IF a = <<>> THEN b # <<>>
    ELSE IF b = <<>> THEN FALSE
    ELSE IF Head(a) # Head(b) THEN Head(a) = "0"
    ELSE BitstringLess(Tail(a), Tail(b))

\* count descending, equal counts by ascending bitstring
RankedBefore(x, y) ==
    \/ Count(x) > Count(y)
    \/ Count(x) = Count(y) /\ BitstringLess(Key(x), Key(y))

\* the orders in which a dict holding the same (bitstring, count) pairs can
\* have been filled
InsertionOrders(cnts) ==
    {[i \in 1..Len(cnts) |-> cnts[p[i]]] :
        p \in InjectiveSeqs(1..Len(cnts), Len(cnts))}

\* C10: the all-zero outcome never becomes an equation, the other outcomes
\* are considered by count descending and, at equal counts, by ascending
\* bitstring; hence the returned list is the same for every insertion order
\* of the same (bitstring, count) pairs.
EquationsIgnoreInsertionOrder ==
    pc = "solve" =>
        /\ \A k \in 1..Len(linear_equations) : linear_equations[k] # EquationText(<<>>)
        /\ \A o \in InsertionOrders(counts) :
               (\A i, j \in 1..Len(o) : i < j => RankedBefore(o[i], o[j])) =>
                   linear_equations =
                       extract_linear_equations(o, request.hidden_period, n)
        /\ \A o \in InsertionOrders(counts) :
               linear_equations =
                   extract_linear_equations(o, request.hidden_period, n)

====
